---------------------------- MODULE Spec2Model ----------------------------
(* Model of src/merge_sessions.py: discovery of the fragment files of a    *)
(* directory, tolerant reading, classification, aggregation of the usage   *)
(* summaries, the time-ordered merge of the messages and the write of the  *)
(* merged session file.  One behaviour is a directory followed by the      *)
(* executions of main() on it.                                             *)
EXTENDS Integers, Sequences, FiniteSets, TLC

VARIABLES
    dir,               \* the directory: file name -> sequence of lines
    pc,                \* "ready": main() is to run; "exited": it has ended
    reruns,            \* times the program was started again
    generated,         \* identifiers uuid.uuid4() has returned
    outcome,           \* "none", "True", "False" or the exception that escaped
    raised_in,         \* the function the exception was raised in, or "none"
    processed_files,   \* merge_sessions: primary files, in discovery order
    raw_files,         \* merge_sessions: raw companions, in discovery order
    all_session_data,  \* merge_sessions: one session data per primary file
    merged_session_id, \* merge_sessions: the generated identifier
    all_messages,      \* merge_sessions: stamped, sorted messages
    aggregated_data,   \* merge_sessions: the aggregated totals
    stdout,            \* lines printed to standard output
    stderr             \* files a read warning was printed for

vars == <<dir, pc, reruns, generated, outcome, raised_in, processed_files, raw_files,
          all_session_data, merged_session_id, all_messages,
          aggregated_data, stdout, stderr>>

-----------------------------------------------------------------------------
(* Bounds *)

\* lines in the whole directory before the first execution
MaxLines == 3
\* times the program is started again on the same directory
MaxReruns == 1

-----------------------------------------------------------------------------
(* JSON values.  An object is a function from its keys to its values; a    *)
(* timestamp string is described by its form, its wall-clock reading and   *)
(* its zone designator.                                                    *)

\* dict.get(key, default)
Get(d, k, default) == IF k \in DOMAIN d THEN d[k] ELSE default

\* d.copy(); d[k] = v
CopySet(d, k, v) == [x \in DOMAIN d \cup {k} |-> IF x = k THEN v ELSE d[x]]

\* the empty string, as a timestamp value
EmptyTs == [form |-> "empty", wall |-> 0, tz |-> "none", off |-> 0]
\* a string that is no ISO-8601 date
GarbageTs == [form |-> "garbage", wall |-> 0, tz |-> "none", off |-> 0]
\* "<wall>Z"
ZTs(w) == [form |-> "iso", wall |-> w, tz |-> "Z", off |-> 0]
\* "<wall>+<o>:00"
OffTs(w, o) == [form |-> "iso", wall |-> w, tz |-> "offset", off |-> o]
\* "<wall>", no zone designator
NaiveTs(w) == [form |-> "iso", wall |-> w, tz |-> "none", off |-> 0]

\* year 1 of datetime.min
MinWall == 0

\* datetime.min.replace(tzinfo=timezone.utc)
MinDatetime == [aware |-> TRUE, wall |-> MinWall, off |-> 0]

\* ts.replace('Z', '+00:00')
ReplaceZ(ts) == IF ts.tz = "Z" THEN [ts EXCEPT !.tz = "offset", !.off = 0] ELSE ts

\* datetime.fromisoformat(ts): raises on anything but an ISO-8601 date with
\* no zone or a numeric offset; a date with no zone gives a naive datetime
FromIsoFormat(ts) ==
    IF ts.form = "iso" /\ ts.tz # "Z"
    THEN [ok |-> TRUE,
          value |-> [aware |-> ts.tz = "offset", wall |-> ts.wall, off |-> ts.off]]
    ELSE [ok |-> FALSE, value |-> MinDatetime]

parse_timestamp(ts) ==
    IF ts.form = "empty"
    THEN MinDatetime
    ELSE LET r == FromIsoFormat(ReplaceZ(ts))
         IN  IF r.ok THEN r.value ELSE MinDatetime

\* the instant two datetimes of the same kind are ordered by
Instant(d) == IF d.aware THEN d.wall - d.off ELSE d.wall

\* datetime.__lt__ raises TypeError between a naive and an aware datetime
Comparable(d1, d2) == d1.aware = d2.aware

-----------------------------------------------------------------------------
(* Lines of a file and the values json.loads gives for them.               *)

\* Python's None, where a dict could stand
None == [python |-> "None"]
\* a JSON value that is no object (a number, a string, a list)
ScalarValue == [python |-> "scalar"]
\* event.get('type') of an object without the key
NoType == "<none>"

\* an empty or whitespace-only line
BlankLine == [kind |-> "blank"]
\* a line json.loads rejects
MalformedLine == [kind |-> "malformed"]
\* bytes the utf-8 decoder rejects (or an I/O error): iterating the file raises
UndecodableLine == [kind |-> "undecodable"]
\* a line holding a JSON value that is no object
ScalarLine == [kind |-> "scalar"]
\* json.dumps(d) + '\n'
Dumps(d) == [kind |-> "object", obj |-> d]

\* json.loads(line) raises json.JSONDecodeError
LoadsFails(line) == line.kind \in {"blank", "malformed"}
\* json.loads(line), when it does not raise
Loads(line) == IF line.kind = "object" THEN line.obj ELSE ScalarValue

IsDict(e) == e # ScalarValue

\* event.get('type'); raises AttributeError on a value that is no dict
TypeOf(e) == Get(e, "type", NoType)

MessageTypes == {"user", "assistant", "assistant_thinking"}

-----------------------------------------------------------------------------
(* File names.  A name matching session_*.jsonl is given by the text       *)
(* between the prefix and the extension: an identifier, followed or not by *)
(* the marker _raw.                                                        *)

PrimaryPath(sid) == [id |-> sid, raw |-> FALSE]
\* logs_dir / f"session_{sid}_raw.jsonl"
RawPath(sid) == [id |-> sid, raw |-> TRUE]
\* "_raw.jsonl" in f.name
IsRawName(f) == f.raw
\* f.stem.replace('session_', '')
StemId(f) == f.id

-----------------------------------------------------------------------------
(* Sequences *)

Range(s) == {s[i] : i \in 1..Len(s)}

RECURSIVE Concat(_)
Concat(ss) == IF ss = <<>> THEN <<>> ELSE Head(ss) \o Concat(Tail(ss))

Prefix(s, n) == SubSeq(s, 1, n)

\* list.sort(key=...) compares the keys with <; between a naive and an aware
\* datetime that raises TypeError, and a sort of two or more keys holding
\* both kinds compares such a pair
SortRaises(keys) ==
    \E i, j \in 1..Len(keys) : ~Comparable(keys[i], keys[j])

\* p goes before the pairs whose key equals its own: the sort is not stable
InsertPairBeforeEqual(sorted, p) ==
    LET k == Cardinality({i \in 1..Len(sorted) :
                            Instant(sorted[i][1]) < Instant(p[1])})
    IN  Prefix(sorted, k) \o <<p>> \o SubSeq(sorted, k + 1, Len(sorted))

\* one step of the stable sort: p goes after every pair whose key is not
\* greater than its own
InsertPair(sorted, p) ==
    LET k == Cardinality({i \in 1..Len(sorted) :
                            Instant(sorted[i][1]) <= Instant(p[1])})
    IN  Prefix(sorted, k) \o <<p>> \o SubSeq(sorted, k + 1, Len(sorted))

RECURSIVE SortPairs(_)
SortPairs(pairs) ==
    IF pairs = <<>> THEN <<>>
    ELSE InsertPair(SortPairs(Prefix(pairs, Len(pairs) - 1)), pairs[Len(pairs)])

\* items.sort(key=...), keys[i] being the key of items[i]; stable, ascending
SortByKey(items, keys) ==
    LET sorted == SortPairs([i \in 1..Len(items) |-> <<keys[i], items[i]>>])
    IN  [i \in 1..Len(items) |-> sorted[i][2]]

-----------------------------------------------------------------------------
(* find_session_files *)

\* get_start_time on the lines of a file: any exception while reading or
\* decoding ends the scan with the minimum datetime
RECURSIVE get_start_time(_)
get_start_time(lines) ==
    IF lines = <<>> THEN MinDatetime
    ELSE LET line == Head(lines) IN
         IF line.kind = "undecodable" \/ LoadsFails(line) THEN MinDatetime
         ELSE LET event == Loads(line) IN
              IF ~IsDict(event) THEN MinDatetime
              ELSE IF TypeOf(event) = "session_start"
                   THEN parse_timestamp(Get(event, "timestamp", EmptyTs))
                   ELSE get_start_time(Tail(lines))

\* the keys processed_files.sort computes, in the order of the list
StartKeys(d, files) == [i \in 1..Len(files) |-> get_start_time(d[files[i]])]

\* glob: the names of the directory in the order the file system lists them
\* lines 32-36: the split of the globbed names
Primaries(glob) == SelectSeq(glob, LAMBDA f : ~IsRawName(f))

\* lines 51-56: the raw companions that exist, in the order of the primaries
RawCompanions(d, processed) ==
    LET paths == [i \in 1..Len(processed) |-> RawPath(StemId(processed[i]))]
    IN  SelectSeq(paths, LAMBDA p : p \in DOMAIN d)

find_session_files(d, glob) ==
    LET unsorted == Primaries(glob)
        keys == StartKeys(d, unsorted)
    IN  IF SortRaises(keys)
        THEN [raised |-> TRUE, processed |-> <<>>, raw |-> <<>>]
        ELSE LET processed == SortByKey(unsorted, keys)
             IN  [raised |-> FALSE, processed |-> processed,
                  raw |-> RawCompanions(d, processed)]

-----------------------------------------------------------------------------
(* read_session_events, extract_session_data, aggregate_summaries *)

\* read_session_events on the lines of a file: blank lines and lines
\* json.loads rejects are skipped; an exception while iterating the file ends
\* the read with a warning and the events read so far
RECURSIVE read_session_events(_)
read_session_events(lines) ==
    IF lines = <<>> THEN [events |-> <<>>, warned |-> FALSE]
    ELSE LET line == Head(lines) IN
         IF line.kind = "undecodable" THEN [events |-> <<>>, warned |-> TRUE]
         ELSE LET rest == read_session_events(Tail(lines)) IN
              IF LoadsFails(line) THEN rest
              ELSE [events |-> <<Loads(line)>> \o rest.events,
                    warned |-> rest.warned]

EmptySessionData ==
    [session_start |-> None, session_end |-> None, session_summary |-> None,
     messages |-> <<>>, other_events |-> <<>>]

\* the tuple of line 94 without its last type: assistant_thinking records
\* go to the other events
ClassifyTwoTypes(data, event) ==
    LET event_type == TypeOf(event) IN
    IF event_type = "session_start" THEN [data EXCEPT !.session_start = event]
    ELSE IF event_type = "session_end" THEN [data EXCEPT !.session_end = event]
    ELSE IF event_type = "session_summary"
         THEN [data EXCEPT !.session_summary = event]
    ELSE IF event_type \in {"user", "assistant"}
         THEN [data EXCEPT !.messages = Append(@, event)]
    ELSE [data EXCEPT !.other_events = Append(@, event)]

\* lines 87-97: one event goes to its slot or its bucket
Classify(data, event) ==
    LET event_type == TypeOf(event) IN
    IF event_type = "session_start" THEN [data EXCEPT !.session_start = event]
    ELSE IF event_type = "session_end" THEN [data EXCEPT !.session_end = event]
    ELSE IF event_type = "session_summary"
         THEN [data EXCEPT !.session_summary = event]
    ELSE IF event_type \in MessageTypes
         THEN [data EXCEPT !.messages = Append(@, event)]
    ELSE [data EXCEPT !.other_events = Append(@, event)]

RECURSIVE extract_session_data(_)
extract_session_data(events) ==
    IF events = <<>> THEN EmptySessionData
    ELSE Classify(extract_session_data(Prefix(events, Len(events) - 1)),
                  events[Len(events)])

\* event.get raises AttributeError on an event that is no dict
ExtractRaises(events) == \E i \in 1..Len(events) : ~IsDict(events[i])

ZeroTotals ==
    [total_duration_seconds |-> 0, total_messages |-> 0,
     assistant_messages |-> 0, user_prompts |-> 0,
     usage_totals |-> [total_input_tokens |-> 0, total_output_tokens |-> 0]]

\* the empty dict of summary.get('summary_data', {})
EmptyDict == [x \in {} |-> 0]

\* line 119 reading the field of line 118: user_prompts grows by
\* assistant_messages
AddSummaryWrongField(totals, summary) ==
    LET sd == Get(summary, "summary_data", EmptyDict)
        ut == Get(sd, "usage_totals", EmptyDict)
    IN  [total_duration_seconds |->
             totals.total_duration_seconds + Get(sd, "total_duration_seconds", 0),
         total_messages |-> totals.total_messages + Get(sd, "total_messages", 0),
         assistant_messages |->
             totals.assistant_messages + Get(sd, "assistant_messages", 0),
         user_prompts |-> totals.user_prompts + Get(sd, "assistant_messages", 0),
         usage_totals |->
             [total_input_tokens |-> totals.usage_totals.total_input_tokens
                                       + Get(ut, "total_input_tokens", 0),
              total_output_tokens |-> totals.usage_totals.total_output_tokens
                                        + Get(ut, "total_output_tokens", 0)]]

\* lines 115-123: one summary added to the running totals
AddSummary(totals, summary) ==
    LET sd == Get(summary, "summary_data", EmptyDict)
        ut == Get(sd, "usage_totals", EmptyDict)
    IN  [total_duration_seconds |->
             totals.total_duration_seconds + Get(sd, "total_duration_seconds", 0),
         total_messages |-> totals.total_messages + Get(sd, "total_messages", 0),
         assistant_messages |->
             totals.assistant_messages + Get(sd, "assistant_messages", 0),
         user_prompts |-> totals.user_prompts + Get(sd, "user_prompts", 0),
         usage_totals |->
             [total_input_tokens |-> totals.usage_totals.total_input_tokens
                                       + Get(ut, "total_input_tokens", 0),
              total_output_tokens |-> totals.usage_totals.total_output_tokens
                                        + Get(ut, "total_output_tokens", 0)]]

RECURSIVE aggregate_summaries(_)
aggregate_summaries(summaries) ==
    IF summaries = <<>> THEN ZeroTotals
    ELSE AddSummary(aggregate_summaries(Prefix(summaries, Len(summaries) - 1)),
                    summaries[Len(summaries)])

-----------------------------------------------------------------------------
(* merge_sessions *)

\* lines 135-139: every primary file read and classified
ReadAll(d, processed) ==
    [i \in 1..Len(processed) |-> read_session_events(d[processed[i]])]

\* the copy is returned as it is: the stamp is forgotten
StampNothing(msg, id) == msg

\* lines 147-148: the copy of a message, stamped
Stamp(msg, id) == CopySet(msg, "session_id", id)

\* lines 144-149: the messages of all fragments, stamped, in discovery order
CollectMessages(session_data, id) ==
    Concat([i \in 1..Len(session_data) |->
              [j \in 1..Len(session_data[i].messages) |->
                  Stamp(session_data[i].messages[j], id)]])

\* lines 145-149 leave the session data as they were: the stamp goes to the
\* copy of line 147
AfterStamping(session_data, id) == session_data

\* the key of line 151
MessageKey(m) == parse_timestamp(Get(m, "timestamp", EmptyTs))

MessageKeys(messages) == [i \in 1..Len(messages) |-> MessageKey(messages[i])]

\* line 153: the summary slots that are filled
CollectSummaries(session_data) ==
    LET slots == [i \in 1..Len(session_data) |-> session_data[i].session_summary]
    IN  SelectSeq(slots, LAMBDA e : e # None)

\* datetime.now(timezone.utc).isoformat(); the three readings of lines 158,
\* 164 and 171 are taken as one
NowTs(now) == OffTs(now, 0)

\* lines 156-173 and 177-181: the lines of the merged file
OutputLines(id, messages, totals, now) ==
    <<Dumps([type |-> "session_start", timestamp |-> NowTs(now),
             session_id |-> id])>>
    \o [i \in 1..Len(messages) |-> Dumps(messages[i])]
    \o <<Dumps([type |-> "session_summary", timestamp |-> NowTs(now),
                session_id |-> id, summary_data |-> totals]),
         Dumps([type |-> "session_end", timestamp |-> NowTs(now),
                session_id |-> id])>>

\* what the write of lines 176-181 leaves on disk: w = -1 when open fails,
\* 0..Len(lines)-1 when the write fails after w lines, Len(lines) or more
\* when it succeeds
WriteFile(d, path, lines, w) ==
    IF w < 0 THEN d
    ELSE [f \in DOMAIN d \cup {path} |->
             IF f = path THEN Prefix(lines, IF w < Len(lines) THEN w ELSE Len(lines))
             ELSE d[f]]

NoRun ==
    [outcome |-> "none", raised_in |-> "none", dir |-> <<>>, processed_files |-> <<>>,
     raw_files |-> <<>>, all_session_data |-> <<>>, merged_session_id |-> "",
     all_messages |-> <<>>, aggregated_data |-> ZeroTotals,
     stdout |-> <<>>, stderr |-> <<>>]

\* One call of merge_sessions on directory d: glob is the order the file
\* system lists the names in, id what uuid4 returns, now the clock, w the
\* fate of the write.  The result holds the directory afterwards, the value
\* returned or the exception raised, and the locals of the call.
merge_sessions(d, glob, id, now, w) ==
    LET found == find_session_files(d, glob)
        reads == ReadAll(d, found.processed)
        warned == SelectSeq(found.processed,
                            LAMBDA f : read_session_events(d[f]).warned)
        base == [NoRun EXCEPT !.dir = d, !.processed_files = found.processed,
                              !.raw_files = found.raw]
    IN
    IF found.raised
    THEN [base EXCEPT !.outcome = "TypeError", !.raised_in = "find_session_files"]
    ELSE IF Len(found.processed) < 2
    THEN [base EXCEPT !.outcome = "False",
                      !.stdout = <<<<"Found", Len(found.processed)>>>>]
    ELSE IF \E i \in 1..Len(reads) : ExtractRaises(reads[i].events)
    THEN [base EXCEPT !.outcome = "AttributeError",
                      !.raised_in = "extract_session_data", !.stderr = warned]
    ELSE
    LET session_data ==
            [i \in 1..Len(reads) |-> extract_session_data(reads[i].events)]
        collected == CollectMessages(session_data, id)
        keys == MessageKeys(collected)
        read == [base EXCEPT !.all_session_data = AfterStamping(session_data, id),
                             !.merged_session_id = id, !.stderr = warned]
    IN
    IF SortRaises(keys)
    THEN [read EXCEPT !.outcome = "TypeError", !.raised_in = "merge_sessions"]
    ELSE
    LET messages == SortByKey(collected, keys)
        totals == aggregate_summaries(CollectSummaries(session_data))
        lines == OutputLines(id, messages, totals, now)
        done == [read EXCEPT !.all_messages = messages,
                             !.aggregated_data = totals,
                             !.dir = WriteFile(d, PrimaryPath(id), lines, w)]
    IN
    IF w < Len(lines)
    THEN [done EXCEPT !.outcome = "OSError", !.raised_in = "merge_sessions"]
    ELSE [done EXCEPT !.outcome = "True",
                      !.stdout = <<<<"Created", PrimaryPath(id)>>>>]

-----------------------------------------------------------------------------
(* Inputs *)

\* identifiers of the fragments found in the directory
FragIds == <<"a", "b">>
\* identifiers uuid.uuid4() can return
UUIDs == {"u1", "u2"}
\* wall-clock readings of the fragments' timestamps
Early == 1
Late == 2
\* the wall clock when the program runs
MergeTime == 5

Event(type, ts, sid) == [type |-> type, timestamp |-> ts, session_id |-> sid]
EventNoTs(type, sid) == [type |-> type, session_id |-> sid]
Summary(sd) == [type |-> "session_summary", summary_data |-> sd]
Counts(d, m, a, u, i, o) ==
    [total_duration_seconds |-> d, total_messages |-> m,
     assistant_messages |-> a, user_prompts |-> u,
     usage_totals |-> [total_input_tokens |-> i, total_output_tokens |-> o]]

SeqsUpTo(S, n) == UNION {[1..k -> S] : k \in 0..n}

\* the ways to cut s into n consecutive pieces
RECURSIVE Splits(_, _)
Splits(s, n) ==
    IF n = 1 THEN {<<s>>}
    ELSE UNION {{<<Prefix(s, k)>> \o r :
                    r \in Splits(SubSeq(s, k + 1, Len(s)), n - 1)} :
                k \in 0..Len(s)}

\* the directory whose primary files FragIds[i], i in present, hold the
\* lines parts[i], and whose raw files are those of raws
Directory(parts, present, raws) ==
    [f \in {PrimaryPath(FragIds[i]) : i \in present} \cup {RawPath(r) : r \in raws}
       |-> IF IsRawName(f) THEN <<>>
           ELSE parts[CHOOSE i \in present : FragIds[i] = StemId(f)]]

\* The program starts on a directory holding at most MaxLines lines of pool
\* in the primary files of FragIds (a file with no line may be absent) and
\* raw files named by some of rawIds.
InitOn(pool, rawIds) ==
    /\ \E s \in SeqsUpTo(pool, MaxLines) :
       \E parts \in Splits(s, Len(FragIds)) :
       \E present \in SUBSET (1..Len(FragIds)), raws \in SUBSET rawIds :
          /\ \A i \in 1..Len(FragIds) : parts[i] # <<>> => i \in present
          /\ dir = Directory(parts, present, raws)
    /\ pc = "ready"
    /\ reruns = 0
    /\ generated = {}
    /\ outcome = NoRun.outcome
    /\ raised_in = NoRun.raised_in
    /\ processed_files = NoRun.processed_files
    /\ raw_files = NoRun.raw_files
    /\ all_session_data = NoRun.all_session_data
    /\ merged_session_id = NoRun.merged_session_id
    /\ all_messages = NoRun.all_messages
    /\ aggregated_data = NoRun.aggregated_data
    /\ stdout = NoRun.stdout
    /\ stderr = NoRun.stderr

\* the orders in which the file system can list the names of d
Globs(d) ==
    {g \in [1..Cardinality(DOMAIN d) -> DOMAIN d] : Range(g) = DOMAIN d}

\* the number of lines in the primary files of d
TotalLines(d) ==
    LET names == CHOOSE g \in Globs(d) : TRUE
        RECURSIVE Sum(_)
        Sum(i) == IF i = 0 THEN 0 ELSE Len(d[names[i]]) + Sum(i - 1)
    IN  Sum(Len(names))

-----------------------------------------------------------------------------
(* Actions *)

\* main() (lines 187-197) on an existing directory: one call of
\* merge_sessions, then the process ends
main ==
    /\ pc = "ready"
    /\ \E glob \in Globs(dir), id \in UUIDs \ generated,
          w \in (-1)..(TotalLines(dir) + 3) :
          \E r \in {merge_sessions(dir, glob, id, MergeTime + reruns, w)} :
          /\ dir' = r.dir
          /\ outcome' = r.outcome
          /\ raised_in' = r.raised_in
          /\ processed_files' = r.processed_files
          /\ raw_files' = r.raw_files
          /\ all_session_data' = r.all_session_data
          /\ merged_session_id' = r.merged_session_id
          /\ all_messages' = r.all_messages
          /\ aggregated_data' = r.aggregated_data
          /\ stdout' = r.stdout
          /\ stderr' = r.stderr
          /\ generated' = generated \cup {id}
    /\ pc' = "exited"
    /\ UNCHANGED reruns

\* the user starts the program again on the directory as it now is
Restart ==
    /\ pc = "exited"
    /\ reruns < MaxReruns
    /\ pc' = "ready"
    /\ reruns' = reruns + 1
    /\ UNCHANGED <<dir, generated, outcome, raised_in, processed_files, raw_files,
                   all_session_data, merged_session_id, all_messages,
                   aggregated_data, stdout, stderr>>

\* one execution of the program
Next == main

\* executions repeated on the same directory
NextRerun == main \/ Restart

GeneralLines ==
    {Dumps(Event("user", ZTs(Late), "a")),
     Dumps(EventNoTs("assistant", "b")),
     Dumps(Event("assistant_thinking", NaiveTs(Early), "a")),
     Dumps(EventNoTs("tool_use", "b")),
     MalformedLine, UndecodableLine, ScalarLine}

Init == InitOn(GeneralLines, {})

Spec == Init /\ [][Next]_vars

-----------------------------------------------------------------------------
(* What the files hold, read off the directory itself *)

\* the index of the first line of a file that cannot be read, or Len + 1
FirstUnreadable(lines) ==
    IF \E i \in 1..Len(lines) : lines[i] = UndecodableLine
    THEN CHOOSE i \in 1..Len(lines) :
            /\ lines[i] = UndecodableLine
            /\ \A j \in 1..(i - 1) : lines[j] # UndecodableLine
    ELSE Len(lines) + 1

\* the JSON objects on the lines of a file, in order
ObjectsOf(lines) ==
    LET objs == SelectSeq(lines, LAMBDA l : l.kind = "object")
    IN  [i \in 1..Len(objs) |-> objs[i].obj]

\* the JSON objects of a file that come before the point where reading fails
ReadableObjects(lines) == ObjectsOf(Prefix(lines, FirstUnreadable(lines) - 1))

IsMessage(e) == "type" \in DOMAIN e /\ e.type \in MessageTypes

\* the message records a fragment file delivers
FragmentMessages(lines) == SelectSeq(ReadableObjects(lines), IsMessage)

\* the primary files of the directory
PrimaryNames(d) == {f \in DOMAIN d : ~f.raw}

\* the file the last execution wrote, once it has returned True
OutFile == dir[PrimaryPath(merged_session_id)]
OutMessages == SelectSeq(ObjectsOf(OutFile), IsMessage)

\* the fragments' messages in discovery order
FragmentsInOrder ==
    Concat([i \in 1..Len(processed_files) |->
               FragmentMessages(dir[processed_files[i]])])

-----------------------------------------------------------------------------
(* C1 *)

\* C1: one execution writes exactly one new file and returns True when
\* find_session_files yields two or more primary files, and writes nothing,
\* raises nothing and returns False when it yields none or one.  (Stated
\* for the executions in which find_session_files returns and the write of
\* the output does not fail.)
C1_OneOutputOrNoOp ==
    [][(/\ pc = "ready" /\ pc' = "exited"
        /\ raised_in' # "find_session_files"
        /\ outcome' # "OSError") =>
         IF Cardinality(PrimaryNames(dir)) >= 2
         THEN /\ outcome' = "True"
              /\ \E f \in DOMAIN dir' \ DOMAIN dir :
                    DOMAIN dir' = DOMAIN dir \cup {f}
              /\ \A g \in DOMAIN dir : dir'[g] = dir[g]
         ELSE /\ outcome' = "False"
              /\ dir' = dir]_vars

-----------------------------------------------------------------------------
(* C3 *)

\* C3: when the write of the output file fails, the failure escapes
\* merge_sessions and no output file, whole or partial, is in the directory.
C3_NoPartialOutput ==
    (pc = "exited" /\ outcome = "OSError") =>
        PrimaryPath(merged_session_id) \notin DOMAIN dir

-----------------------------------------------------------------------------
(* C4 *)

\* C4: the output of a merge holds as many message records as the fragments
\* delivered together, and beside them only the synthesized start, summary
\* and end records.
C4_MessageCount ==
    outcome = "True" =>
        /\ Len(OutMessages) = Len(FragmentsInOrder)
        /\ Len(OutFile) = Len(OutMessages) + 3
        /\ \A i \in 1..Len(OutFile) : OutFile[i].kind = "object"

\* a merge of two fragments that each deliver a message, one of them beside
\* a record of another type
C4_Witness ==
    /\ outcome = "True"
    /\ Len(processed_files) = 2
    /\ \A i \in 1..2 : FragmentMessages(dir[processed_files[i]]) # <<>>
    /\ \E i \in 1..2 : \E e \in Range(ReadableObjects(dir[processed_files[i]])) :
          ~IsMessage(e)

-----------------------------------------------------------------------------
(* C7 *)

\* C7: every record of the output carries the generated identifier, which no
\* message had in its fragment, and the session data still hold the messages
\* as the fragments delivered them.
C7_Stamped ==
    outcome = "True" =>
        /\ \A i \in 1..Len(OutFile) :
              /\ OutFile[i].kind = "object"
              /\ Get(OutFile[i].obj, "session_id", "") = merged_session_id
        /\ \A i \in 1..Len(FragmentsInOrder) :
              Get(FragmentsInOrder[i], "session_id", "") # merged_session_id
        /\ \A i \in 1..Len(processed_files) :
              all_session_data[i].messages
                 = FragmentMessages(dir[processed_files[i]])

\* a merge whose output holds a message that came with identifier "a" and
\* one that came with identifier "b"
C7_Witness ==
    /\ outcome = "True"
    /\ \E i, j \in 1..Len(FragmentsInOrder) :
          /\ Get(FragmentsInOrder[i], "session_id", "") = "a"
          /\ Get(FragmentsInOrder[j], "session_id", "") = "b"
    /\ Len(OutMessages) >= 2

-----------------------------------------------------------------------------
(* C8 *)

\* C8: in a merge that completes, a fragment whose read failed, on open or
\* part-way, gave an empty record list: it contributes no message and no
\* summary.
C8_EmptyOnReadFailure ==
    outcome = "True" =>
    \A i \in 1..Len(all_session_data) :
        processed_files[i] \in Range(stderr) =>
            /\ all_session_data[i].messages = <<>>
            /\ all_session_data[i].session_summary = None

-----------------------------------------------------------------------------
(* C9 *)

\* C9: parse_timestamp gives a timezone-aware datetime for every timestamp
\* a record carries, so that no sort aborts the merge.
C9_KeysComparable ==
    pc = "exited" =>
        /\ outcome # "TypeError"
        /\ outcome = "True" =>
              \A i \in 1..Len(all_messages) : MessageKey(all_messages[i]).aware

-----------------------------------------------------------------------------
(* C5 *)

OrderLines ==
    {Dumps(Event("user", ZTs(Late), "a")),
     Dumps(Event("user", ZTs(Early), "b")),
     Dumps(Event("assistant", OffTs(Late, Late - Early), "a")),
     Dumps(EventNoTs("assistant", "b")),
     Dumps(Event("user", GarbageTs, "a"))}

InitOrder == InitOn(OrderLines, {})

\* one execution on fragments whose messages differ in their timestamps
SpecOrder == InitOrder /\ [][Next]_vars

\* the instant a message is sorted by
InstantOf(m) == Instant(parse_timestamp(Get(m, "timestamp", EmptyTs)))

\* the fragments' messages in discovery order, as they are written
StampedInOrder ==
    [i \in 1..Len(FragmentsInOrder) |->
        CopySet(FragmentsInOrder[i], "session_id", merged_session_id)]

\* C5: the messages written are the fragments' messages in ascending order of
\* their instants, and the messages of one instant stand in the order they
\* have in the concatenation of the fragments in discovery order.
C5_StableAscending ==
    outcome = "True" =>
        /\ \A i, j \in 1..Len(OutMessages) :
              i < j => InstantOf(OutMessages[i]) <= InstantOf(OutMessages[j])
        /\ \A t \in {InstantOf(m) : m \in Range(OutMessages) \cup Range(StampedInOrder)} :
              SelectSeq(OutMessages, LAMBDA m : InstantOf(m) = t)
                 = SelectSeq(StampedInOrder, LAMBDA m : InstantOf(m) = t)

\* a merge that moves a message of the second fragment before one of the
\* first, and writes two different messages of one instant
C5_Witness ==
    /\ outcome = "True"
    /\ OutMessages # StampedInOrder
    /\ \E i, j \in 1..Len(OutMessages) :
          /\ i < j
          /\ InstantOf(OutMessages[i]) = InstantOf(OutMessages[j])
          /\ OutMessages[i] # OutMessages[j]

-----------------------------------------------------------------------------
(* C6 *)

TotalsLines ==
    {Dumps(Summary(Counts(1, 2, 1, 1, 100, 10))),
     Dumps(Summary(Counts(2, 3, 2, 1, 250, 20))),
     Dumps(Summary([total_messages |-> 4, user_prompts |-> 3])),
     Dumps([type |-> "session_summary"]),
     Dumps(EventNoTs("user", "a"))}

InitTotals == InitOn(TotalsLines, {})

\* one execution on fragments holding summary records
SpecTotals == InitTotals /\ [][Next]_vars

TopFields ==
    {"total_duration_seconds", "total_messages", "assistant_messages",
     "user_prompts"}
UsageFields == {"total_input_tokens", "total_output_tokens"}

\* the value a summary record gives for a field, zero when it has none
FieldOf(summary, name) ==
    LET sd == IF "summary_data" \in DOMAIN summary
              THEN summary.summary_data ELSE EmptyDict
        holder == IF name \in TopFields THEN sd
                  ELSE IF "usage_totals" \in DOMAIN sd THEN sd.usage_totals
                  ELSE EmptyDict
    IN  IF name \in DOMAIN holder THEN holder[name] ELSE 0

RECURSIVE SumField(_, _)
SumField(summaries, name) ==
    IF summaries = <<>> THEN 0
    ELSE FieldOf(Head(summaries), name) + SumField(Tail(summaries), name)

IsSummary(e) == "type" \in DOMAIN e /\ e.type = "session_summary"

\* every summary record the fragments deliver
EverySummary ==
    Concat([i \in 1..Len(processed_files) |->
               SelectSeq(ReadableObjects(dir[processed_files[i]]), IsSummary)])

\* the last summary record of each fragment that delivers one
LastSummaries ==
    Concat([i \in 1..Len(processed_files) |->
               LET ss == SelectSeq(ReadableObjects(dir[processed_files[i]]),
                                   IsSummary)
               IN  IF ss = <<>> THEN <<>> ELSE <<ss[Len(ss)]>>])

\* the summary record of the output file
WrittenSummary == OutFile[Len(OutFile) - 1].obj

\* C6, as the specification states it: each total written is the sum of the field over every
\* session_summary record present in the primary fragments.
C6_SumOfEverySummary ==
    outcome = "True" =>
        \A name \in TopFields \cup UsageFields :
            FieldOf(WrittenSummary, name) = SumField(EverySummary, name)

\* C6, amended: each total written is the sum of the field over the last
\* session_summary record of each primary fragment; a fragment with no such
\* record and a record without the field contribute zero.
C6_SumOfLastSummaries ==
    outcome = "True" =>
        /\ IsSummary(WrittenSummary)
        /\ \A name \in TopFields \cup UsageFields :
              FieldOf(WrittenSummary, name) = SumField(LastSummaries, name)

\* a merge of a fragment holding two summary records and a fragment holding
\* one, with a non-zero sum
C6_Witness ==
    /\ outcome = "True"
    /\ Len(LastSummaries) = 2
    /\ Len(EverySummary) = 3
    /\ FieldOf(WrittenSummary, "total_input_tokens") > 0
    /\ FieldOf(WrittenSummary, "user_prompts") > 0

-----------------------------------------------------------------------------
(* C10 *)

DiscoverLines ==
    {Dumps(Event("session_start", ZTs(Late), "a")),
     Dumps(Event("session_start", ZTs(Early), "b")),
     Dumps(EventNoTs("user", "a")),
     BlankLine}

\* raw files: the companion of fragment "b" and one with no primary file
DiscoverRaws == {"b", "c"}

InitDiscover == InitOn(DiscoverLines, DiscoverRaws)

\* one execution on fragments holding session_start records, beside raw files
SpecDiscover == InitDiscover /\ [][Next]_vars

IsStart(e) == "type" \in DOMAIN e /\ e.type = "session_start"

\* the parsed timestamp of the first session_start record of a file, whatever
\* precedes it; the minimum datetime when the file holds none
FirstStartTime(lines) ==
    LET starts == SelectSeq(ObjectsOf(lines), IsStart)
    IN  IF starts = <<>> THEN MinDatetime
        ELSE parse_timestamp(Get(starts[1], "timestamp", EmptyTs))

\* the primary files the execution found in the directory
FoundPrimaries == PrimaryNames(dir) \ {PrimaryPath(merged_session_id)}

\* C10: find_session_files returns the primary files in ascending order of
\* the timestamp of the first session_start record of each, whatever lines
\* precede that record, and the raw companions that exist, in the order of
\* their primaries.
C10_SortedByFirstStart ==
    (pc = "exited" /\ raised_in # "find_session_files") =>
        /\ Range(processed_files) = FoundPrimaries
        /\ Len(processed_files) = Cardinality(FoundPrimaries)
        /\ \A i, j \in 1..Len(processed_files) :
              i < j => Instant(FirstStartTime(dir[processed_files[i]]))
                         <= Instant(FirstStartTime(dir[processed_files[j]]))
        /\ raw_files
              = SelectSeq([i \in 1..Len(processed_files) |->
                              RawPath(processed_files[i].id)],
                          LAMBDA f : f \in DOMAIN dir)

-----------------------------------------------------------------------------
(* C2 *)

RerunLines ==
    {Dumps(Event("user", ZTs(Late), "a")),
     Dumps(Summary(Counts(1, 2, 1, 1, 100, 10)))}

InitRerun == InitOn(RerunLines, {})

\* executions repeated on the same directory
SpecRerun == InitRerun /\ [][NextRerun]_vars

\* a file written to its end by merge_sessions
IsWholeOutput(lines) ==
    /\ Len(lines) >= 3
    /\ lines[Len(lines)].kind = "object"
    /\ Get(lines[Len(lines)].obj, "type", NoType) = "session_end"

\* a message without the identifier it was stamped with
Unstamped(m) == [k \in DOMAIN m \ {"session_id"} |-> m[k]]

MessagesOfOutput(lines) ==
    LET ms == SelectSeq(ObjectsOf(lines), IsMessage)
    IN  [i \in 1..Len(ms) |-> Unstamped(ms[i])]

TotalsOfOutput(lines) == lines[Len(lines) - 1].obj.summary_data

\* C2: the outputs of two executions on the same directory, the fragments
\* untouched, hold the same message records (the stamped session_id apart)
\* and the same aggregated totals.
C2_RerunSameContent ==
    \A u, v \in generated :
        LET first == PrimaryPath(u)
            second == PrimaryPath(v)
        IN  (/\ first \in DOMAIN dir /\ second \in DOMAIN dir
             /\ IsWholeOutput(dir[first]) /\ IsWholeOutput(dir[second])) =>
               /\ MessagesOfOutput(dir[first]) = MessagesOfOutput(dir[second])
               /\ TotalsOfOutput(dir[first]) = TotalsOfOutput(dir[second])

=============================================================================
